---- MODULE Spec2Model ----
(***************************************************************************)
(* A model of ikago's packet-capture proxy, internal/pcap/layer.go:        *)
(* Pcap.Open, the listen capture loops running Pcap.handleListen, the     *)
(* upstream capture loop running Pcap.handle, the carrier counters seq and *)
(* id, and the NAT map from quintuples to capture handles.                 *)
(*                                                                         *)
(* Packets are sequences of cells (small naturals) in a scaled-down wire   *)
(* format: a network header is the five cells                              *)
(*     << version*16 + IHL, TTL, protocol, source, destination >>          *)
(* and a transport header the two cells << source port, destination port >>*)
(* whatever follows is the application payload.  The decoders below read   *)
(* packets from those cells the way gopacket's decoders do.                *)
(***************************************************************************)
EXTENDS Integers, Sequences, FiniteSets, TLC

\* Frames each capture loop reads before the model stops feeding it.
MaxFrames == 1

\* p.id is a uint16.  p.seq is a uint32, kept as its two 16-bit halves
\* [hi, lo] (its value is hi * 65536 + lo): TLC's integers end at 2^31 - 1.
IdMod == 65536
SeqHalf == 65536

U32(hi, lo) == [hi |-> hi, lo |-> lo]
U32Zero == U32(0, 0)
U32Max == U32(SeqHalf - 1, SeqHalf - 1)
\* x + n on a uint32, for a small n
U32Add(x, n) ==
    U32((x.hi + ((x.lo + n) \div SeqHalf)) % SeqHalf, (x.lo + n) % SeqHalf)

NoLayer == [type |-> "none"]
NilHandle == "nil"
UpH == "up"
ListenH(i) == IF i = 1 THEN "L1" ELSE "L2"

---------------------------------------------------------------------------
(* gopacket decoding, as the handlers use it *)

Rest(b, n) == SubSeq(b, n + 1, Len(b))

Payload(b) == IF Len(b) = 0 THEN NoLayer ELSE [type |-> "Payload", contents |-> b]

\* Protocol numbers whose layer gopacket registers as a transport layer:
\* 6 is TCP, 17 is UDP, 136 is UDPLite; every other protocol (1, ICMPv4) gives none.
TransportType(proto) ==
    IF proto = 6 THEN "TCP"
    ELSE IF proto = 17 THEN "UDP"
    ELSE IF proto = 136 THEN "UDPLite"
    ELSE "none"

\* The layers above a network header whose protocol is proto and whose payload is b.
DecodeAbove(proto, b) ==
    IF TransportType(proto) = "none" \/ Len(b) < 2
    THEN [trans |-> NoLayer, app |-> NoLayer]
    ELSE [trans |-> [type |-> TransportType(proto), sport |-> b[1], dport |-> b[2],
                     contents |-> SubSeq(b, 1, 2)],
          app   |-> Payload(Rest(b, 2))]

\* gopacket.NewPacket(b, layers.LayerTypeIPv4, gopacket.Default): the IPv4 decoder
\* does not look at the version nibble; a header length under 5 words is a decode
\* error that leaves the network layer set and decodes nothing above it.
DecodeIPv4(b) ==
    IF Len(b) < 5
    THEN [net |-> NoLayer, trans |-> NoLayer, app |-> NoLayer]
    ELSE LET ip == [type |-> "IPv4", version |-> b[1] \div 16, ihl |-> b[1] % 16,
                    ttl |-> b[2], proto |-> b[3], src |-> b[4], dst |-> b[5],
                    contents |-> SubSeq(b, 1, 5)]
             up == IF ip.ihl < 5 THEN [trans |-> NoLayer, app |-> NoLayer]
                   ELSE DecodeAbove(ip.proto, Rest(b, 5))
         IN  [net |-> ip, trans |-> up.trans, app |-> up.app]

\* gopacket.NewPacket(b, layers.LayerTypeIPv6, gopacket.Default)
DecodeIPv6(b) ==
    IF Len(b) < 5
    THEN [net |-> NoLayer, trans |-> NoLayer, app |-> NoLayer]
    ELSE LET ip == [type |-> "IPv6", version |-> b[1] \div 16, hop |-> b[2],
                    proto |-> b[3], src |-> b[4], dst |-> b[5],
                    contents |-> SubSeq(b, 1, 5)]
             up == DecodeAbove(ip.proto, Rest(b, 5))
         IN  [net |-> ip, trans |-> up.trans, app |-> up.app]

\* A frame captured on a listen handle: its EtherType (or loopback family) picks
\* the network decoder; anything but IP has no network layer.
DecodeFrame(f) ==
    IF f.ether = "IPv4" THEN DecodeIPv4(f.bytes)
    ELSE IF f.ether = "IPv6" THEN DecodeIPv6(f.bytes)
    ELSE [net |-> NoLayer, trans |-> NoLayer, app |-> NoLayer]

---------------------------------------------------------------------------
(* The layer builders CreateIPv4Layer and CreateIPv6Layer *)

\* A net.IP by its shape: four bytes, sixteen bytes holding an IPv4-mapped
\* address, sixteen bytes holding any other address, nil (or empty), and a slice
\* of another length.
AddrKinds == {"v4", "v4in16", "v6", "nil", "short"}

\* net.IP.To4() != nil
To4NotNil(ip) == ip \in {"v4", "v4in16"}

\* The layer types a transport layer argument may have: 132 stands for SCTP.
BuilderTransports == {"TCP", "UDP", "ICMPv4", "SCTP"}

BuildFailed(err) == [layer |-> NoLayer, err |-> err, bound |-> NoLayer]

\* CreateIPv4Layer(srcIP, dstIP, id, ttl, transportLayer); bindOK is whether
\* SetNetworkLayerForChecksum returns nil.  bound is the network layer the
\* transport layer is left bound to.
CreateIPv4Layer(srcIP, dstIP, ident, ttl, transport, bindOK) ==
    LET hdr(proto) == [type |-> "IPv4", Version |-> 4, IHL |-> 5, Id |-> ident,
                       Flags |-> "DF", TTL |-> ttl, Protocol |-> proto,
                       SrcIP |-> srcIP, DstIP |-> dstIP]
    IN
    IF ~To4NotNil(srcIP) THEN BuildFailed("invalid source ip")
    ELSE IF ~To4NotNil(dstIP) THEN BuildFailed("invalid destination ip")
    ELSE IF transport \in {"TCP", "UDP"}
    THEN LET l == hdr(IF transport = "TCP" THEN 6 ELSE 17) IN
         IF bindOK THEN [layer |-> l, err |-> "", bound |-> l]
         ELSE BuildFailed("set network layer for checksum")
    ELSE BuildFailed("transport layer type not support")

\* CreateIPv6Layer(srcIP, dstIP, hopLimit, transportLayer): the transport layer
\* is only looked at for its type.
CreateIPv6Layer(srcIP, dstIP, hopLimit, transport) ==
    LET hdr(proto) == [type |-> "IPv6", Version |-> 6, HopLimit |-> hopLimit,
                       NextHeader |-> proto, SrcIP |-> srcIP, DstIP |-> dstIP]
    IN
    IF To4NotNil(srcIP) THEN BuildFailed("invalid source ip")
    ELSE IF To4NotNil(dstIP) THEN BuildFailed("invalid destination ip")
    ELSE IF transport = "TCP" THEN [layer |-> hdr(6), err |-> "", bound |-> NoLayer]
    ELSE IF transport = "UDP" THEN [layer |-> hdr(17), err |-> "", bound |-> NoLayer]
    ELSE IF transport = "ICMPv4" THEN [layer |-> hdr(1), err |-> "", bound |-> NoLayer]
    ELSE BuildFailed("transport layer type not support")

---------------------------------------------------------------------------
(* The configuration: the fields of Pcap that Open and the handlers read *)

\* UpPort, ServerPort, the server's address and the devices' hardware addresses,
\* as cells of the scaled-down format.
ListenPort == 5
UpPort == 7
ServerPort == 8
UpDevIPv4 == 11
UpDevIPv6 == 12
ServerIP == 13
UpDevMAC == 21
GatewayMAC == 22

\* nListen   len(p.ListenDevs)           hasUp, hasGw   p.UpDev, p.GatewayDev non-nil
\* gwAddrs   the families of p.GatewayDev.IPAddrs, in order
\* upAddrs   the families of p.UpDev.IPAddrs, in order
\* serverFam the family of p.ServerIP
\* tcpLen    len(LayerContents()) of a TCP layer built by createTCP
\* listenLoop  IsLoop of each of p.ListenDevs
\* loopVarShared  whether the variable of a for loop is one variable for all its
\*           iterations (Go before 1.22) or a new one in each
BaseCfg ==
    [nListen |-> 2, hasUp |-> TRUE, hasGw |-> TRUE, gwIsLoop |-> FALSE,
     gwAddrs |-> <<4>>, upIsLoop |-> FALSE, upAddrs |-> <<4>>, serverFam |-> 4,
     tcpLen |-> 20, loopVarShared |-> TRUE, listenLoop |-> <<FALSE, FALSE>>]

HasFamily(addrs, fam) == \E k \in 1..Len(addrs) : addrs[k] = fam

\* p.UpDev.IPv4().IP and p.UpDev.IPv6().IP: the first address of the family, or nil (0).
DevIPv4(c) == IF HasFamily(c.upAddrs, 4) THEN UpDevIPv4 ELSE 0
DevIPv6(c) == IF HasFamily(c.upAddrs, 6) THEN UpDevIPv6 ELSE 0

\* gatewayDevIP indexes IPAddrs[0]: it panics on a gateway without addresses.
GatewayDevIPPanics(c) == Len(c.gwAddrs) = 0
gatewayDevIP(c) == c.gwAddrs[1]

\* isIPv4 := p.gatewayDevIP().To4() != nil, as the family of the carrier
ChosenFamily(c) == IF gatewayDevIP(c) = 4 THEN 4 ELSE 6

---------------------------------------------------------------------------
(* handleListen: what it computes from the frame alone *)

\* Contents without the transport layer's bytes: what the tunnel payload would be
\* if one of the three appends were left out.
ContentsWithoutTransport(pkt) ==
    pkt.net.contents \o (IF pkt.app.type = "none" THEN <<>> ELSE pkt.app.contents)

\* contents: the network, transport and application layers' contents, appended.
Contents(pkt) ==
    pkt.net.contents \o pkt.trans.contents
        \o (IF pkt.app.type = "none" THEN <<>> ELSE pkt.app.contents)

NoParse ==
    [ok |-> FALSE, err |-> "", netType |-> "none", srcIP |-> 0, dstIP |-> 0, ttl |-> 0,
     transType |-> "none", srcPort |-> 0, dstPort |-> 0, isPortUnknown |-> FALSE,
     contents |-> <<>>]

\* The "Parse packet" part: the layers, the addresses, the TTL (IPv4 only: an IPv6
\* packet leaves ttl at zero) and the ports (TCP and UDP only).
ParseListen(f) ==
    LET pkt == DecodeFrame(f) IN
    IF pkt.net.type = "none" THEN [NoParse EXCEPT !.err = "missing network layer"]
    ELSE IF pkt.trans.type = "none"
    THEN [NoParse EXCEPT !.err = "missing transport layer"]
    ELSE [ok |-> TRUE, err |-> "", netType |-> pkt.net.type,
          srcIP |-> pkt.net.src, dstIP |-> pkt.net.dst,
          ttl |-> IF pkt.net.type = "IPv4" THEN pkt.net.ttl ELSE 0,
          transType |-> pkt.trans.type,
          srcPort |-> IF pkt.trans.type \in {"TCP", "UDP"} THEN pkt.trans.sport ELSE 0,
          dstPort |-> IF pkt.trans.type \in {"TCP", "UDP"} THEN pkt.trans.dport ELSE 0,
          isPortUnknown |-> pkt.trans.type \notin {"TCP", "UDP"},
          contents |-> Contents(pkt)]

ListenQuintuple(r) ==
    [SrcIP |-> r.srcIP, SrcPort |-> r.srcPort, DstIP |-> r.dstIP, DstPort |-> r.dstPort,
     Protocol |-> r.transType]

createTCP(srcPort, dstPort, s) ==
    [SrcPort |-> srcPort, DstPort |-> dstPort, Seq |-> s, DataOffset |-> 5,
     PSH |-> TRUE, ACK |-> TRUE]

createIPv4(srcIP, dstIP, ident, ttl) ==
    [Version |-> 4, IHL |-> 5, Length |-> 0, Id |-> ident, Flags |-> "DF", TTL |-> ttl,
     Protocol |-> 6, SrcIP |-> srcIP, DstIP |-> dstIP]

\* A decrement that stops at zero.
TTLMinusOneSaturating(ttl) == IF ttl = 0 THEN 0 ELSE ttl - 1

\* ttl-1 on a uint8
TTLMinusOne(ttl) == (ttl + 255) % 256

\* ipv4.Length: a uint16
IPv4Length(ihl, tcpLen, n) == ((ihl + tcpLen + n) * 8) % 65536

\* The carrier's link layer: loopback on a loopback upstream device, else Ethernet
\* from the upstream device to the gateway.
UpLinkLayer(c) ==
    IF c.upIsLoop THEN [type |-> "Loopback", bytes |-> <<0, 0, 0, 0>>]
    ELSE [type |-> "Ethernet", bytes |-> <<GatewayMAC, UpDevMAC, 2048>>]

\* The carrier frame handed to SerializeLayers: link, IPv4, TCP and the payload.
Carrier(c, r, tcpSeq, ipId) ==
    [link |-> UpLinkLayer(c),
     ip   |-> [createIPv4(DevIPv4(c), ServerIP, ipId, TTLMinusOne(r.ttl))
                 EXCEPT !.Length = IPv4Length(5, c.tcpLen, Len(r.contents))],
     tcp  |-> createTCP(UpPort, ServerPort, tcpSeq),
     payload |-> r.contents]

\* IPv4.SerializeTo refuses an address that is not IPv4: the carrier's destination
\* is p.ServerIP whatever its family.
SerializeCarrierFails(c) == c.serverFam # 4

---------------------------------------------------------------------------
(* handle: what it computes from the upstream frame alone *)

NoInner ==
    [ok |-> FALSE, err |-> "", netType |-> "none", srcIP |-> 0, dstIP |-> 0,
     transType |-> "none", srcPort |-> 0, dstPort |-> 0]

\* The "Parse packet" part.  payload is the carrier's application layer; an empty
\* one is a nil layer.  The payload is decoded as IPv4 first and the version read
\* from that header; for version 6 it is decoded again as IPv6, into a variable
\* that shadows encappedPacket, so the transport layer always comes from the
\* IPv4 decoding.
ParseInner(payload) ==
    LET p4 == DecodeIPv4(payload)
        p6 == DecodeIPv6(payload)
        ver == p4.net.version
        tr == p4.trans
        known == tr.type \in {"TCP", "UDP"}
    IN
    IF Len(payload) = 0 THEN [NoInner EXCEPT !.err = "empty payload"]
    ELSE IF p4.net.type = "none" THEN [NoInner EXCEPT !.err = "missing network layer"]
    ELSE IF ver = 6 /\ p6.net.type = "none"
    THEN [NoInner EXCEPT !.err = "missing network layer"]
    ELSE IF ver \notin {4, 6} THEN [NoInner EXCEPT !.err = "IP version not support"]
    ELSE IF tr.type = "none" THEN [NoInner EXCEPT !.err = "missing transport layer"]
    ELSE [ok |-> TRUE, err |-> "",
          netType |-> IF ver = 4 THEN "IPv4" ELSE "IPv6",
          srcIP |-> IF ver = 4 THEN p4.net.src ELSE p6.net.src,
          dstIP |-> IF ver = 4 THEN p4.net.dst ELSE p6.net.dst,
          transType |-> tr.type,
          srcPort |-> IF known THEN tr.sport ELSE 0,
          dstPort |-> IF known THEN tr.dport ELSE 0]

\* "Create new link layer": on an Ethernet upstream device only an IPv4 inner
\* packet gets a link layer; anything else is dropped there.
InnerLinkFails(c, r) == ~c.upIsLoop /\ r.netType # "IPv4"

\* A forwarding that behaves as a router hop: the inner packet's TTL cell lowered.
SerializeInnerHopped(c, payload) ==
    UpLinkLayer(c).bytes
        \o [k \in 1..Len(payload) |-> IF k = 2 THEN (payload[k] + 255) % 256 ELSE payload[k]]

\* "Serialize layers": the link layer followed by the carrier payload.
SerializeInner(c, payload) == UpLinkLayer(c).bytes \o payload

\* The quintuple in the inner packet's own direction.
SameDirectionQuintuple(r) ==
    [SrcIP |-> r.srcIP, SrcPort |-> r.srcPort, DstIP |-> r.dstIP, DstPort |-> r.dstPort,
     Protocol |-> r.transType]

\* "Check map": the quintuple of the reverse direction.
ReverseQuintuple(r) ==
    [SrcIP |-> r.dstIP, SrcPort |-> r.dstPort, DstIP |-> r.srcIP, DstPort |-> r.srcPort,
     Protocol |-> r.transType]

---------------------------------------------------------------------------
(* The state *)

VARIABLES
    cfg,            \* the configuration Open is called with
    openPC,         \* where Open is: start, listen, spawn, up, upbpf, blocked, returned
    openIdx,        \* the index of Open's current loop over the listen devices
    openErr,        \* the error Open returned ("" for none)
    listenHandles,  \* p.listenHandles
    bpfFailed,      \* the handles whose SetBPFFilter returned an error
    loopHandle,     \* the variable handle of Open's second loop, shared by its closures
    upHandle,       \* p.upHandle
    seq, id,        \* p.seq, p.id
    nat,            \* p.nat: a function from the quintuples it holds to handles
    lpc, loc,       \* each listen loop's position and the locals of its handleListen
    nRead,          \* frames each listen loop has read
    last,           \* what each listen loop's last handleListen call did
    upc, uloc,      \* the upstream loop's position and the locals of its handle
    uRead,          \* frames the upstream loop has read
    ulast,          \* what the upstream loop's last handle call did
    crashed,        \* the panic or fatal error that ended the process ("" for none)
    closed,         \* whether Close has been called
    build,          \* the last call of a network layer builder and what it returned
    hist            \* counts kept for the properties, never read by the program

vars == <<cfg, openPC, openIdx, openErr, listenHandles, bpfFailed, loopHandle, upHandle,
          seq, id, nat, lpc, loc, nRead, last, upc, uloc, uRead, ulast, crashed, build,
          closed, hist>>

openVars == <<openPC, openIdx, openErr, listenHandles, bpfFailed, loopHandle, upHandle>>
listenVars == <<lpc, loc, nRead, last>>
upVars == <<upc, uloc, uRead, ulast>>

Loops == {1, 2}

NoFrame == [ether |-> "none", bytes |-> <<>>]
\* seqAtStart, idAtStart and natAtStart are p.seq, p.id and p.nat as handleListen
\* found them when it was called.
NoLoc ==
    [f |-> NoFrame, n |-> 0, h |-> NilHandle, tcpSeq |-> U32Zero, tmpSeq |-> U32Zero,
     tmp |-> 0, ipId |-> 0, seqAtStart |-> U32Zero, idAtStart |-> 0, natAtStart |-> <<>>]
NoCarrier == [link |-> NoLayer, ip |-> NoLayer, tcp |-> NoLayer, payload |-> <<>>]

\* A handleListen call: the frame, the handle it was read from, the handle the
\* call was given, the carrier family it chose (0 when it did not get that far),
\* whether the quintuple was stored, p.seq, p.id and p.nat as the call found
\* them and as it left them, and the carrier written.
NoLast ==
    [valid |-> FALSE, f |-> NoFrame, readOn |-> NilHandle, h |-> NilHandle,
     family |-> 0, registered |-> FALSE, natAtEnd |-> <<>>, wrote |-> FALSE, emitted |-> FALSE,
     carrier |-> NoCarrier,
     seqAtStart |-> U32Zero, idAtStart |-> 0, natAtStart |-> <<>>,
     seqAtEnd |-> U32Zero, idAtEnd |-> 0]

NoULoc == [payload |-> <<>>, n |-> 0, target |-> NilHandle, natSeen |-> <<>>]

\* A handle call: the carrier payload, the table as the lookup saw it, the number
\* of WritePacketData calls, the handle written to, the type of the link layer
\* serialized, the bytes written and whether the write succeeded.
NoULast ==
    [valid |-> FALSE, payload |-> <<>>, natSeen |-> <<>>, writes |-> 0,
     target |-> NilHandle, link |-> "none", data |-> <<>>, injected |-> FALSE]

NoBuild ==
    [valid |-> FALSE, fn |-> "", srcIP |-> "nil", dstIP |-> "nil", transport |-> "none",
     layer |-> NoLayer, err |-> "", bound |-> NoLayer]

NoHist ==
    [seq0 |-> U32Zero, nDecoded |-> 0, nSeq |-> 0, nId |-> 0, nUpInj |-> 0,
     usedSeq |-> {}, usedId |-> {}, dupSeq |-> FALSE, dupId |-> FALSE,
     natBusy |-> FALSE, lastInj |-> [src \in Loops \cup {0} |-> 0],
     nInj |-> [src \in Loops \cup {0} |-> 0], outOfOrder |-> FALSE]

Configs ==
    { BaseCfg,
      [BaseCfg EXCEPT !.loopVarShared = FALSE],
      [BaseCfg EXCEPT !.nListen = 1],
      [BaseCfg EXCEPT !.nListen = 0],
      [BaseCfg EXCEPT !.hasUp = FALSE],
      [BaseCfg EXCEPT !.hasGw = FALSE],
      [BaseCfg EXCEPT !.nListen = 1, !.gwAddrs = <<>>],
      [BaseCfg EXCEPT !.nListen = 1, !.gwAddrs = <<>>, !.gwIsLoop = TRUE],
      [BaseCfg EXCEPT !.nListen = 1, !.upAddrs = <<6>>],
      [BaseCfg EXCEPT !.nListen = 1, !.gwAddrs = <<6, 4>>, !.upAddrs = <<4, 6>>],
      [BaseCfg EXCEPT !.nListen = 1, !.serverFam = 6],
      [BaseCfg EXCEPT !.nListen = 1, !.upIsLoop = TRUE, !.tcpLen = 0] }

\* A Pcap value before Open: the zero values of its unexported fields.
InitWith(C, S) ==
    /\ cfg \in C
    /\ openPC = "start" /\ openIdx = 0 /\ openErr = ""
    /\ listenHandles = <<>> /\ bpfFailed = {}
    /\ loopHandle = NilHandle /\ upHandle = NilHandle
    /\ seq \in S /\ id = 0 /\ nat = <<>>
    /\ lpc = [i \in Loops |-> "off"] /\ loc = [i \in Loops |-> NoLoc]
    /\ nRead = [i \in Loops |-> 0] /\ last = [i \in Loops |-> NoLast]
    /\ upc = "off" /\ uloc = NoULoc /\ uRead = 0 /\ ulast = NoULast
    /\ crashed = "" /\ build = NoBuild /\ closed = FALSE
    /\ hist = [NoHist EXCEPT !.seq0 = seq]

Init == InitWith(Configs, {U32Zero})

---------------------------------------------------------------------------
(* Open *)

\* p.id = 0, the new map, the three checks, and the "Route upstream" line, which
\* calls gatewayDevIP for a gateway that is not a loopback device.
OpenStart ==
    /\ crashed = "" /\ openPC = "start"
    /\ id' = 0 /\ nat' = <<>>
    /\ IF cfg.nListen <= 0
       THEN openPC' = "returned" /\ openErr' = "missing listen device" /\ crashed' = ""
       ELSE IF ~cfg.hasUp
       THEN openPC' = "returned" /\ openErr' = "missing upstream device" /\ crashed' = ""
       ELSE IF ~cfg.hasGw
       THEN openPC' = "returned" /\ openErr' = "missing gateway" /\ crashed' = ""
       ELSE IF ~cfg.gwIsLoop /\ GatewayDevIPPanics(cfg)
       THEN openPC' = openPC /\ openErr' = openErr
            /\ crashed' = "Open: index out of range"
       ELSE openPC' = "listen" /\ openErr' = openErr /\ crashed' = ""
    /\ openIdx' = 1 /\ listenHandles' = <<>>
    /\ UNCHANGED <<cfg, build, closed, bpfFailed, loopHandle, upHandle, seq, listenVars, upVars, hist>>

\* One turn of "Handles for listening": OpenLive, whose error is returned, then
\* SetBPFFilter, whose error is overwritten by nothing and never looked at.
OpenListenDev ==
    /\ crashed = "" /\ openPC = "listen"
    /\ \E openOK \in BOOLEAN, bpfOK \in BOOLEAN :
        IF ~openOK
        THEN /\ openPC' = "returned" /\ openErr' = "open listen handle"
             /\ UNCHANGED <<openIdx, listenHandles, bpfFailed>>
        ELSE /\ listenHandles' = Append(listenHandles, ListenH(openIdx))
             /\ bpfFailed' = IF bpfOK THEN bpfFailed ELSE bpfFailed \cup {ListenH(openIdx)}
             /\ openErr' = openErr
             /\ IF openIdx < cfg.nListen
                THEN openPC' = openPC /\ openIdx' = openIdx + 1
                ELSE openPC' = "spawn" /\ openIdx' = 1
    /\ UNCHANGED <<cfg, build, closed, loopHandle, upHandle, seq, id, nat, listenVars, upVars, crashed, hist>>

\* One turn of the loop that starts the listen loops: the loop variable takes the
\* next handle and a goroutine is started whose closure refers to that variable.
OpenSpawn ==
    /\ crashed = "" /\ openPC = "spawn"
    /\ loopHandle' = listenHandles[openIdx]
    /\ lpc' = [lpc EXCEPT ![openIdx] = "read"]
    /\ IF openIdx < Len(listenHandles)
       THEN openPC' = openPC /\ openIdx' = openIdx + 1
       ELSE openPC' = "up" /\ openIdx' = openIdx
    /\ UNCHANGED <<cfg, build, closed, openErr, listenHandles, bpfFailed, upHandle, seq, id, nat,
                   loc, nRead, last, upVars, crashed, hist>>

\* p.upHandle, err = pcap.OpenLive(...)
OpenUp ==
    /\ crashed = "" /\ openPC = "up"
    /\ \E openOK \in BOOLEAN :
        IF openOK
        THEN upHandle' = UpH /\ openPC' = "upbpf" /\ openErr' = openErr
        ELSE upHandle' = NilHandle /\ openPC' = "returned"
             /\ openErr' = "open upstream handle"
    /\ UNCHANGED <<cfg, build, closed, openIdx, listenHandles, bpfFailed, loopHandle, seq, id, nat,
                   listenVars, upVars, crashed, hist>>

\* The upstream handle's filter, whose error is returned, then the upstream loop
\* and select {}.
OpenUpBPF ==
    /\ crashed = "" /\ openPC = "upbpf"
    /\ \E bpfOK \in BOOLEAN :
        IF bpfOK
        THEN openPC' = "blocked" /\ openErr' = openErr /\ upc' = "read"
        ELSE openPC' = "returned" /\ openErr' = "set upstream filter" /\ upc' = upc
    /\ UNCHANGED <<cfg, build, closed, openIdx, listenHandles, bpfFailed, loopHandle, upHandle, seq, id,
                   nat, listenVars, uloc, uRead, ulast, crashed, hist>>

OpenStep == OpenStart \/ OpenListenDev \/ OpenSpawn \/ OpenUp \/ OpenUpBPF

---------------------------------------------------------------------------
(* A listen loop: for packet := range packetSrc.Packets() { p.handleListen(packet, handle) } *)

\* The loops inside a map assignment (runtime.mapassign), and those that have
\* left it and not yet stored the value in the slot it returned.
InMapAssign == {j \in Loops : lpc[j] = "natW"}
InNatWrite == {j \in Loops : lpc[j] \in {"natW", "natS"}}

Dropped(i, h, registered, m) ==
    [NoLast EXCEPT !.valid = TRUE, !.f = loc[i].f, !.readOn = ListenH(i), !.h = h,
                   !.family = ChosenFamily(cfg),
                   !.registered = registered, !.natAtEnd = m,
                   !.seqAtStart = loc[i].seqAtStart, !.idAtStart = loc[i].idAtStart,
                   !.natAtStart = loc[i].natAtStart, !.seqAtEnd = seq, !.idAtEnd = id]

\* The handle a listen loop's closure passes to handleListen: the value of the
\* variable handle of Open's loop, as the closure sees it.
ClosureHandle(i) == IF cfg.loopVarShared THEN loopHandle ELSE ListenH(i)

\* The listen filter: tcp && dst port ListenPort && not (src host ServerIP && src
\* port ServerPort).
PassesListenFilter(f) ==
    LET pkt == DecodeFrame(f) IN
    /\ pkt.net.type # "none" /\ pkt.trans.type = "TCP"
    /\ pkt.trans.dport = ListenPort
    /\ ~(pkt.net.src = ServerIP /\ pkt.trans.sport = ServerPort)

\* for packet := range packetSrc.Packets(): the position, in the handle's stream
\* of captured frames, of the frame a loop receives after k earlier ones.
\* Frames each capture loop of the running proxy reads.
MaxRunFrames == 2

FrameNoNewestFirst(k) == MaxRunFrames - k

FrameNo(k) == k + 1

\* An injection by loop src (0 is the upstream loop) of the frame at position n
\* of its stream, written into the history.
Injected(h, src, n) ==
    [h EXCEPT !.lastInj[src] = n, !.nInj[src] = @ + 1,
              !.outOfOrder = @ \/ n <= h.lastInj[src]]

\* The loop takes its next frame (one its filter lets through, if the filter was
\* installed) and calls handleListen with the loop variable's current value;
\* "Parse packet" drops a frame without network or transport layer.
ListenRead(i, F, more) ==
    /\ crashed = "" /\ lpc[i] = "read" /\ more
    /\ \E f \in F :
        /\ ListenH(i) \in bpfFailed \/ PassesListenFilter(f)
        /\ nRead' = [nRead EXCEPT ![i] = @ + 1]
        /\ IF ParseListen(f).ok
           THEN /\ loc' = [loc EXCEPT ![i] = [NoLoc EXCEPT !.f = f, !.n = FrameNo(nRead[i]),
                                                          !.h = ClosureHandle(i),
                                                          !.seqAtStart = seq,
                                                          !.idAtStart = id,
                                                          !.natAtStart = nat]]
                /\ lpc' = [lpc EXCEPT ![i] = "tcp"]
                /\ last' = [last EXCEPT ![i] = NoLast]
                /\ hist' = [hist EXCEPT !.nDecoded = @ + 1]
           ELSE /\ last' = [last EXCEPT ![i] =
                               [NoLast EXCEPT !.valid = TRUE, !.f = f,
                                              !.readOn = ListenH(i), !.h = ClosureHandle(i),
                                              !.natAtEnd = nat,
                                              !.seqAtStart = seq, !.idAtStart = id,
                                              !.natAtStart = nat,
                                              !.seqAtEnd = seq, !.idAtEnd = id]]
                /\ UNCHANGED <<loc, lpc, hist>>
    /\ UNCHANGED <<cfg, build, closed, openVars, seq, id, nat, upVars, crashed>>

\* createTCP(p.UpPort, p.ServerPort, p.seq)
ListenCreateTCP(i) ==
    /\ crashed = "" /\ lpc[i] = "tcp"
    /\ loc' = [loc EXCEPT ![i].tcpSeq = seq]
    /\ lpc' = [lpc EXCEPT ![i] = "seqR"]
    /\ hist' = [hist EXCEPT !.usedSeq = @ \cup {seq},
                            !.dupSeq = @ \/ seq \in hist.usedSeq]
    /\ UNCHANGED <<cfg, build, closed, openVars, seq, id, nat, nRead, last, upVars, crashed>>

\* p.seq++ is a load and a store.
ListenSeqLoad(i) ==
    /\ crashed = "" /\ lpc[i] = "seqR"
    /\ loc' = [loc EXCEPT ![i].tmpSeq = seq]
    /\ lpc' = [lpc EXCEPT ![i] = "seqW"]
    /\ UNCHANGED <<cfg, build, closed, openVars, seq, id, nat, nRead, last, upVars, crashed, hist>>

\* No increment at all.
SeqAfterUnchanged(tmp) == tmp

\* An increment of the low half alone, without the carry.
SeqAfterLowHalf(tmp) == U32(tmp.hi, (tmp.lo + 1) % SeqHalf)

SeqAfter(tmp) == U32Add(tmp, 1)

\* The store of p.seq++, then "Decide IPv4 of IPv6": gatewayDevIP panics on a
\* gateway without addresses; a frame is dropped when the upstream device has no
\* address of the gateway's family, and when that family is IPv6.
ListenSeqStore(i) ==
    /\ crashed = "" /\ lpc[i] = "seqW"
    /\ seq' = SeqAfter(loc[i].tmpSeq)
    /\ hist' = [hist EXCEPT !.nSeq = @ + 1]
    /\ IF GatewayDevIPPanics(cfg)
       THEN /\ crashed' = "handleListen: index out of range"
            /\ UNCHANGED <<lpc, loc, last>>
       ELSE /\ crashed' = crashed
            /\ IF ChosenFamily(cfg) = 4 /\ DevIPv4(cfg) # 0
               THEN /\ lpc' = [lpc EXCEPT ![i] = "ipid"]
                    /\ UNCHANGED <<loc, last>>
               ELSE /\ lpc' = [lpc EXCEPT ![i] = "read"]
                    /\ last' = [last EXCEPT ![i] =
                                   [Dropped(i, loc[i].h, FALSE, nat) EXCEPT
                                       !.seqAtEnd = seq']]
                    /\ loc' = [loc EXCEPT ![i] = NoLoc]
    /\ UNCHANGED <<cfg, build, closed, openVars, id, nat, nRead, upVars>>

\* createIPv4(upDevIP, p.ServerIP, p.id, ttl-1)
ListenCreateIPv4(i) ==
    /\ crashed = "" /\ lpc[i] = "ipid"
    /\ loc' = [loc EXCEPT ![i].ipId = id]
    /\ lpc' = [lpc EXCEPT ![i] = "idR"]
    /\ hist' = [hist EXCEPT !.usedId = @ \cup {id}, !.dupId = @ \/ id \in hist.usedId]
    /\ UNCHANGED <<cfg, build, closed, openVars, seq, id, nat, nRead, last, upVars, crashed>>

\* p.id++ is a load and a store.
ListenIdLoad(i) ==
    /\ crashed = "" /\ lpc[i] = "idR"
    /\ loc' = [loc EXCEPT ![i].tmp = id]
    /\ lpc' = [lpc EXCEPT ![i] = "idW"]
    /\ UNCHANGED <<cfg, build, closed, openVars, seq, id, nat, nRead, last, upVars, crashed, hist>>

IdAfter(tmp) == (tmp + 1) % IdMod

ListenIdStore(i) ==
    /\ crashed = "" /\ lpc[i] = "idW"
    /\ id' = IdAfter(loc[i].tmp)
    /\ hist' = [hist EXCEPT !.nId = @ + 1]
    /\ lpc' = [lpc EXCEPT ![i] = "natB"]
    /\ UNCHANGED <<cfg, build, closed, openVars, seq, nat, loc, nRead, last, upVars, crashed>>

\* p.nat[q] = handle enters runtime.mapassign, which throws "concurrent map
\* writes" when it sees another assignment under way; the check is itself
\* unsynchronized, so it may also see nothing.
ListenNatBegin(i) ==
    /\ crashed = "" /\ lpc[i] = "natB"
    /\ \E seen \in BOOLEAN :
        IF seen /\ InMapAssign # {}
        THEN crashed' = "fatal error: concurrent map writes" /\ lpc' = lpc
        ELSE crashed' = crashed /\ lpc' = [lpc EXCEPT ![i] = "natW"]
    /\ hist' = [hist EXCEPT !.natBusy = @ \/ InNatWrite # {}]
    /\ UNCHANGED <<cfg, build, closed, openVars, seq, id, nat, loc, nRead, last, upVars>>

\* mapassign returns the slot of the key: a new key gets a slot holding nil.
ListenNatAssign(i) ==
    /\ crashed = "" /\ lpc[i] = "natW"
    /\ LET q == ListenQuintuple(ParseListen(loc[i].f)) IN
       nat' = IF q \in DOMAIN nat THEN nat ELSE (q :> NilHandle) @@ nat
    /\ lpc' = [lpc EXCEPT ![i] = "natS"]
    /\ UNCHANGED <<cfg, build, closed, openVars, seq, id, loc, nRead, last, upVars, crashed, hist>>

NatStored(m, q, h) == [m EXCEPT ![q] = h]

\* The handle is stored in the slot; then "Serialize layers", whose error drops
\* the frame.
ListenNatStore(i) ==
    /\ crashed = "" /\ lpc[i] = "natS"
    /\ nat' = NatStored(nat, ListenQuintuple(ParseListen(loc[i].f)), loc[i].h)
    /\ IF SerializeCarrierFails(cfg)
       THEN /\ lpc' = [lpc EXCEPT ![i] = "read"]
            /\ last' = [last EXCEPT ![i] = Dropped(i, loc[i].h, TRUE, nat')]
            /\ loc' = [loc EXCEPT ![i] = NoLoc]
       ELSE /\ lpc' = [lpc EXCEPT ![i] = "wr"]
            /\ UNCHANGED <<loc, last>>
    /\ UNCHANGED <<cfg, build, closed, openVars, seq, id, nRead, upVars, crashed, hist>>

\* A write to a handle that Close has closed uses a freed capture descriptor: it
\* may end the process, or go on and return an error.
ClosedWriteCrashes == {c \in BOOLEAN : c => closed}

\* p.upHandle.WritePacketData(data) begins: a nil p.upHandle is dereferenced.
ListenWriteBegin(i) ==
    /\ crashed = "" /\ lpc[i] = "wr"
    /\ \E crash \in ClosedWriteCrashes :
        IF upHandle = NilHandle
        THEN crashed' = "handleListen: nil pointer dereference" /\ lpc' = lpc
        ELSE IF crash
        THEN crashed' = "handleListen: write on a closed handle" /\ lpc' = lpc
        ELSE crashed' = crashed /\ lpc' = [lpc EXCEPT ![i] = "wring"]
    /\ UNCHANGED <<cfg, build, closed, openVars, seq, id, nat, loc, nRead, last, upVars, hist>>

\* WritePacketData returns; its error is printed and handleListen returns.
ListenWriteEnd(i) ==
    /\ crashed = "" /\ lpc[i] = "wring"
    /\ \E ok \in BOOLEAN :
        /\ ok => ~closed
        /\ last' = [last EXCEPT ![i] =
                       [Dropped(i, loc[i].h, TRUE, nat) EXCEPT
                           !.wrote = TRUE, !.emitted = ok,
                           !.carrier = Carrier(cfg, ParseListen(loc[i].f),
                                               loc[i].tcpSeq, loc[i].ipId)]]
        /\ hist' = IF ok THEN [Injected(hist, i, loc[i].n) EXCEPT !.nUpInj = @ + 1]
                   ELSE hist
    /\ lpc' = [lpc EXCEPT ![i] = "read"]
    /\ loc' = [loc EXCEPT ![i] = NoLoc]
    /\ UNCHANGED <<cfg, build, closed, openVars, seq, id, nat, nRead, upVars, crashed>>

ListenStep(i, F, more) ==
    \/ ListenRead(i, F, more) \/ ListenCreateTCP(i) \/ ListenSeqLoad(i) \/ ListenSeqStore(i)
    \/ ListenCreateIPv4(i) \/ ListenIdLoad(i) \/ ListenIdStore(i)
    \/ ListenNatBegin(i) \/ ListenNatAssign(i) \/ ListenNatStore(i)
    \/ ListenWriteBegin(i) \/ ListenWriteEnd(i)

---------------------------------------------------------------------------
(* The upstream loop: for packet := range packetSrc.Packets() { p.handle(packet) } *)

\* The loop takes its next frame and handle runs up to "Check map": the parse,
\* the link layer and the serialization drop the frame or leave data ready.
UpRead(P, more) ==
    /\ crashed = "" /\ upc = "read" /\ more
    /\ \E payload \in P :
        /\ uRead' = uRead + 1
        /\ IF ParseInner(payload).ok /\ ~InnerLinkFails(cfg, ParseInner(payload))
           THEN /\ uloc' = [NoULoc EXCEPT !.payload = payload, !.n = FrameNo(uRead)]
                /\ upc' = "lookup"
                /\ ulast' = NoULast
           ELSE /\ ulast' = [NoULast EXCEPT !.valid = TRUE, !.payload = payload]
                /\ UNCHANGED <<uloc, upc>>
    /\ UNCHANGED <<cfg, build, closed, openVars, seq, id, nat, listenVars, crashed, hist>>

\* handle, ok := p.nat[q]; if !ok { handle = p.upHandle }.  runtime.mapaccess
\* throws "concurrent map read and map write" when it sees an assignment under way.
UpLookup ==
    /\ crashed = "" /\ upc = "lookup"
    /\ LET q == ReverseQuintuple(ParseInner(uloc.payload))
           found == q \in DOMAIN nat
       IN  \E seen \in BOOLEAN :
            IF seen /\ InMapAssign # {}
            THEN /\ crashed' = "fatal error: concurrent map read and map write"
                 /\ UNCHANGED <<uloc, upc>>
            ELSE /\ crashed' = crashed
                 /\ uloc' = [uloc EXCEPT !.natSeen = nat,
                                         !.target = IF found THEN nat[q] ELSE upHandle]
                 /\ upc' = "wr"
    /\ hist' = [hist EXCEPT !.natBusy = @ \/ InNatWrite # {}]
    /\ UNCHANGED <<cfg, build, closed, openVars, seq, id, nat, listenVars, uRead, ulast>>

\* handle.WritePacketData(data) begins: a nil handle is dereferenced.
UpWriteBegin ==
    /\ crashed = "" /\ upc = "wr"
    /\ \E crash \in ClosedWriteCrashes :
        IF uloc.target = NilHandle
        THEN crashed' = "handle: nil pointer dereference" /\ upc' = upc
        ELSE IF crash
        THEN crashed' = "handle: write on a closed handle" /\ upc' = upc
        ELSE crashed' = crashed /\ upc' = "wring"
    /\ UNCHANGED <<cfg, build, closed, openVars, seq, id, nat, listenVars, uloc, uRead, ulast, hist>>

\* WritePacketData returns; its error is printed and handle returns.
UpWriteEnd ==
    /\ crashed = "" /\ upc = "wring"
    /\ \E ok \in BOOLEAN :
        /\ ok => ~closed
        /\ ulast' = [valid |-> TRUE, payload |-> uloc.payload, natSeen |-> uloc.natSeen,
                     writes |-> 1, target |-> uloc.target, link |-> UpLinkLayer(cfg).type,
                     data |-> SerializeInner(cfg, uloc.payload), injected |-> ok]
        /\ hist' = IF ok THEN Injected(hist, 0, uloc.n) ELSE hist
    /\ upc' = "read"
    /\ uloc' = NoULoc
    /\ UNCHANGED <<cfg, build, closed, openVars, seq, id, nat, listenVars, uRead, crashed>>

UpStep(P, more) == UpRead(P, more) \/ UpLookup \/ UpWriteBegin \/ UpWriteEnd

---------------------------------------------------------------------------
(* The proxy: Open and the capture loops it starts, in every interleaving *)

\* Cells: 69 is version 4 with a header of 5 words, 6 is TCP; the hosts are 1 and 2.
FrameAB == [ether |-> "IPv4", bytes |-> <<69, 64, 6, 1, 2, 1, 5, 9>>]
FrameARP == [ether |-> "ARP", bytes |-> <<1, 2>>]
ReplyBA == <<69, 64, 6, 2, 1, 5, 1, 9>>

ListenFrames == {FrameAB, FrameARP}
UpPayloads == {ReplyBA, <<>>}

Next ==
    \/ OpenStep
    \/ \E i \in Loops : ListenStep(i, ListenFrames, nRead[i] < MaxFrames)
    \/ UpStep(UpPayloads, uRead < MaxFrames)

Spec == Init /\ [][Next]_vars

---------------------------------------------------------------------------
(* The pipelines: a proxy whose Open has started every loop, each handler call *)
(* running to its end before the next begins                                   *)

\* Handler calls in a run of the pipelines.
MaxCalls == 2

FrameBA == [ether |-> "IPv4", bytes |-> <<69, 64, 6, 2, 1, 5, 1, 9>>]
\* source and destination alike, a TTL of 1, no payload
FrameSym == [ether |-> "IPv4", bytes |-> <<69, 1, 6, 1, 1, 5, 5>>]
\* UDPLite (136): a transport layer whose ports handleListen does not read; TTL 0
FrameUDPLite == [ether |-> "IPv4", bytes |-> <<69, 0, 136, 1, 2, 1, 5, 9>>]
\* ICMPv4 (1): no transport layer
FrameICMP == [ether |-> "IPv4", bytes |-> <<69, 64, 1, 1, 2, 8, 0>>]
\* 96 is version 6
FrameV6 == [ether |-> "IPv6", bytes |-> <<96, 64, 6, 1, 2, 1, 5, 9>>]

PipeListenFrames ==
    {FrameAB, FrameBA, FrameSym, FrameUDPLite, FrameICMP, FrameV6, FrameARP}

\* Carrier payloads: the packets above, a version-6 packet whose first cell reads
\* as a 5-word header to the IPv4 decoder (101) and one that does not (96), a
\* version-5 packet (85), a truncated header and a carrier without payload.
PipeUpPayloads ==
    {FrameAB.bytes, FrameBA.bytes, FrameSym.bytes, FrameUDPLite.bytes,
     <<101, 64, 6, 2, 1, 5, 1, 9>>, <<96, 64, 6, 2, 1, 5, 1, 9>>,
     <<85, 64, 6, 2, 1, 5, 1, 9>>, <<69, 64>>, <<>>}

PipeConfigs ==
    { BaseCfg,
      [BaseCfg EXCEPT !.loopVarShared = FALSE],
      [BaseCfg EXCEPT !.nListen = 1],
      [BaseCfg EXCEPT !.nListen = 1, !.upIsLoop = TRUE, !.tcpLen = 0],
      [BaseCfg EXCEPT !.nListen = 1, !.listenLoop = <<TRUE, FALSE>>],
      [BaseCfg EXCEPT !.nListen = 1, !.listenLoop = <<TRUE, FALSE>>, !.upIsLoop = TRUE],
      [BaseCfg EXCEPT !.nListen = 1, !.upAddrs = <<6>>],
      [BaseCfg EXCEPT !.nListen = 1, !.gwAddrs = <<6, 4>>, !.upAddrs = <<4, 6>>],
      [BaseCfg EXCEPT !.nListen = 1, !.serverFam = 6],
      [BaseCfg EXCEPT !.nListen = 1, !.gwAddrs = <<>>, !.gwIsLoop = TRUE] }

\* The state Open leaves when it reaches select {}: every handle open, the loop
\* variable at the last listen handle, every loop waiting for a frame.  p.seq is
\* whatever earlier traffic left it at.
PipeInit ==
    /\ cfg \in PipeConfigs
    /\ openPC = "blocked" /\ openIdx = cfg.nListen /\ openErr = ""
    /\ listenHandles = [k \in 1..cfg.nListen |-> ListenH(k)]
    /\ bpfFailed \in {{}, {ListenH(1)}}
    /\ loopHandle = ListenH(cfg.nListen) /\ upHandle = UpH
    /\ seq \in {U32Zero, U32Max} /\ id = 0 /\ nat = <<>>
    /\ lpc = [i \in Loops |-> IF i <= cfg.nListen THEN "read" ELSE "off"]
    /\ loc = [i \in Loops |-> NoLoc]
    /\ nRead = [i \in Loops |-> 0] /\ last = [i \in Loops |-> NoLast]
    /\ upc = "read" /\ uloc = NoULoc /\ uRead = 0 /\ ulast = NoULast
    /\ crashed = "" /\ build = NoBuild /\ closed = FALSE
    /\ hist = [NoHist EXCEPT !.seq0 = seq]

Calls == nRead[1] + nRead[2] + uRead
ListenIdle(S) == \A j \in S : lpc[j] \in {"read", "off"}

\* A server that loops carriers back: the payloads of the carriers the listen
\* loops last put on the upstream handle.
LoopedBack == {last[j].carrier.payload : j \in {k \in Loops : last[k].emitted}}

PipeNext ==
    \/ \E i \in Loops :
        /\ ListenIdle(Loops \ {i}) /\ upc \in {"read", "off"}
        /\ ListenStep(i, PipeListenFrames, Calls < MaxCalls)
    \/ /\ ListenIdle(Loops)
       /\ UpStep(PipeUpPayloads \cup LoopedBack, Calls < MaxCalls)

PipeSpec == PipeInit /\ [][PipeNext]_vars

---------------------------------------------------------------------------
(* The running proxy: the loops Open started, in every interleaving, and Close *)

\* Close: every listen handle and the upstream handle are closed.  It is called
\* on a proxy whose Open has started every loop.
Close ==
    /\ crashed = "" /\ openPC = "blocked" /\ ~closed
    /\ closed' = TRUE
    /\ UNCHANGED <<cfg, build, openVars, seq, id, nat, listenVars, upVars, crashed, hist>>

\* A closed handle ends its packet source: the channel of packetSrc.Packets() is
\* closed and the loop's range over it ends, after the frames still buffered.
ListenEnd(i) ==
    /\ crashed = "" /\ closed /\ lpc[i] = "read"
    /\ lpc' = [lpc EXCEPT ![i] = "done"]
    /\ UNCHANGED <<cfg, build, closed, openVars, seq, id, nat, loc, nRead, last, upVars,
                   crashed, hist>>

UpEnd ==
    /\ crashed = "" /\ closed /\ upc = "read"
    /\ upc' = "done"
    /\ UNCHANGED <<cfg, build, closed, openVars, seq, id, nat, listenVars, uloc, uRead,
                   ulast, crashed, hist>>

LoopsEnded == upc = "done" /\ \A i \in Loops : lpc[i] \in {"done", "off"}

RunConfigs == {[BaseCfg EXCEPT !.nListen = 1]}

RunInit ==
    /\ PipeInit
    /\ cfg \in RunConfigs /\ bpfFailed = {} /\ seq = U32Zero

RunNext ==
    \/ \E i \in Loops : ListenStep(i, {FrameAB}, nRead[i] < MaxRunFrames)
    \/ UpStep({ReplyBA}, uRead < MaxRunFrames)
    \/ Close
    \/ \E i \in Loops : ListenEnd(i)
    \/ UpEnd

RunSpec == RunInit /\ [][RunNext]_vars

---------------------------------------------------------------------------
(* The builders, called with every shape of address and transport layer *)

BuilderInit == InitWith({BaseCfg}, {U32Zero})

BuilderUnchanged ==
    UNCHANGED <<cfg, openVars, seq, id, nat, listenVars, upVars, crashed, closed, hist>>

CallCreateIPv4Layer ==
    /\ \E srcIP \in AddrKinds, dstIP \in AddrKinds, tr \in BuilderTransports,
          bindOK \in BOOLEAN :
        LET r == CreateIPv4Layer(srcIP, dstIP, 0, 64, tr, bindOK) IN
        build' = [valid |-> TRUE, fn |-> "CreateIPv4Layer", srcIP |-> srcIP,
                  dstIP |-> dstIP, transport |-> tr,
                  layer |-> r.layer, err |-> r.err, bound |-> r.bound]
    /\ BuilderUnchanged

CallCreateIPv6Layer ==
    /\ \E srcIP \in AddrKinds, dstIP \in AddrKinds, tr \in BuilderTransports :
        LET r == CreateIPv6Layer(srcIP, dstIP, 64, tr) IN
        build' = [valid |-> TRUE, fn |-> "CreateIPv6Layer", srcIP |-> srcIP,
                  dstIP |-> dstIP, transport |-> tr,
                  layer |-> r.layer, err |-> r.err, bound |-> r.bound]
    /\ BuilderUnchanged

BuilderNext == CallCreateIPv4Layer \/ CallCreateIPv6Layer

BuilderSpec == BuilderInit /\ [][BuilderNext]_vars

---------------------------------------------------------------------------
(* The properties *)

\* C1: once handleListen has finished a frame that it carried as far as the NAT
\* table, the table binds the frame's quintuple to the handle the frame was read
\* from.
C1_NatBindsTheReadHandle ==
    \A i \in Loops :
        last[i].valid /\ last[i].registered =>
            LET q == ListenQuintuple(ParseListen(last[i].f)) IN
            q \in DOMAIN last[i].natAtEnd /\ last[i].natAtEnd[q] = last[i].readOn

C4_SeqCountsEmittedCarriers ==
    cfg.nListen = 1 /\ lpc[1] = "read" => seq = U32Add(hist.seq0, hist.nUpInj)

\* C4: with a single listen loop, between its handleListen calls, seq is its
\* first value plus the number of frames that passed "Parse packet" (modulo
\* 2^32), whether or not a carrier was emitted for them: the frames dropped
\* before parsing ends are the only ones that leave seq alone.
C4_SeqCountsParsedFrames ==
    cfg.nListen = 1 /\ lpc[1] = "read" => seq = U32Add(hist.seq0, hist.nDecoded)

\* Two parsed frames, not both emitted, took seq from 2^32 - 1 round to 1.
C4_SeqWrappedPastDrops ==
    /\ cfg.nListen = 1 /\ lpc[1] = "read" /\ hist.seq0 = U32Max
    /\ hist.nDecoded = 2 /\ hist.nUpInj < 2
    /\ seq = U32(0, 1)

\* C5: the counters behave as atomic fetch-and-add: after k packets have passed
\* an increment the counter has advanced by k, and no two packets were given the
\* same seq or the same id.
C5_CountersAreAtomic ==
    /\ seq = U32Add(hist.seq0, hist.nSeq)
    /\ id = hist.nId % IdMod
    /\ ~hist.dupSeq /\ ~hist.dupId

\* C6: no NAT write is under way at the same time as another NAT write or as a
\* NAT read.
C6_NatAccessIsSerialized ==
    /\ Cardinality(InNatWrite) <= 1
    /\ ~hist.natBusy

\* C7: no reachable state is a crash of a capture loop or of the process.
C7_NoCrash == crashed = ""

\* C8: once a device is found missing, or opening a handle or installing a filter
\* has failed, Open has returned an error.
C8_StartupErrorsAbortOpen ==
    /\ openPC # "start" /\ (cfg.nListen <= 0 \/ ~cfg.hasUp \/ ~cfg.hasGw)
         => openPC = "returned" /\ openErr # ""
    /\ bpfFailed # {} => openPC = "returned" /\ openErr # ""

\* C9: the bytes handle writes are the new link header (the four-cell loopback
\* header, or the Ethernet header from the upstream device to the gateway)
\* followed by the carrier's payload, cell for cell.
C9_InjectedBytesAreLinkThenPayload ==
    ulast.valid /\ ulast.writes = 1 =>
        LET link == IF cfg.upIsLoop THEN <<0, 0, 0, 0>>
                    ELSE <<GatewayMAC, UpDevMAC, 2048>>
        IN  /\ Len(ulast.data) = Len(link) + Len(ulast.payload)
            /\ \A k \in 1..Len(link) : ulast.data[k] = link[k]
            /\ \A k \in 1..Len(ulast.payload) : ulast.data[Len(link) + k] = ulast.payload[k]

\* A frame with a payload was injected behind a loopback header.
C9_InjectedOnLoopback ==
    /\ ulast.valid /\ ulast.injected /\ cfg.upIsLoop
    /\ Len(ulast.payload) > 5

\* C10: the carrier's IPv4 total length is the carrier IP packet's size in bytes:
\* the header's IHL words of four bytes, the 20 bytes of the carrier's TCP header
\* and the tunnel payload, as a 16-bit value.
C10_LengthIsInBytes ==
    \A i \in Loops :
        last[i].wrote =>
            last[i].carrier.ip.Length =
                (last[i].carrier.ip.IHL * 4 + 20 + Len(last[i].carrier.payload)) % 65536

\* C11: a frame whose network layer is IPv6, captured while the gateway's first
\* address is IPv4, produces no carrier on the upstream handle.
C11_IPv6FrameIsDropped ==
    \A i \in Loops :
        (/\ last[i].valid /\ ParseListen(last[i].f).netType = "IPv6"
         /\ ~GatewayDevIPPanics(cfg) /\ gatewayDevIP(cfg) = 4)
        => ~last[i].emitted

\* C12: a frame that handle writes to a listen handle has the link layer of that
\* handle's device: a loopback header exactly when the listen device is a
\* loopback device.
C12_HitCarriesListenLinkLayer ==
    \A k \in 1..cfg.nListen :
        ulast.valid /\ ulast.injected /\ ulast.target = ListenH(k)
            => (ulast.link = "Loopback" <=> cfg.listenLoop[k])

\* C13: an upstream frame whose carrier payload has a version nibble other than 4
\* (6, or anything else) is dropped: handle injects no frame for it.
C13_NonIPv4InnerIsDropped ==
    ulast.valid /\ Len(ulast.payload) > 0 /\ ulast.payload[1] \div 16 # 4
        => ~ulast.injected

\* C16: the carrier family handleListen chooses is IPv4 when the gateway has an
\* IPv4 address anywhere in its list, and IPv6 only when it has none.
C16_IPv4WheneverGatewayHasIPv4 ==
    \A i \in Loops :
        last[i].valid /\ last[i].family # 0 =>
            last[i].family = IF \E k \in 1..Len(cfg.gwAddrs) : cfg.gwAddrs[k] = 4
                             THEN 4 ELSE 6

\* C17: after either builder returns a header for a TCP or UDP transport layer,
\* the transport layer is bound to that header for its checksum; and a builder
\* that returns an error returns no header.
C17_BuildersBindTheTransport ==
    build.valid =>
        /\ build.err = "" /\ build.transport \in {"TCP", "UDP"}
             => build.layer # NoLayer /\ build.bound = build.layer
        /\ build.err # "" => build.layer = NoLayer

\* C18: a builder returns a header only when both addresses belong to its family
\* (for CreateIPv6Layer: sixteen bytes that are not an IPv4-mapped address), and
\* an error otherwise.
C18_BuildersValidateFamily ==
    build.valid =>
        LET fam == IF build.fn = "CreateIPv4Layer" THEN {"v4", "v4in16"} ELSE {"v6"}
        IN  /\ build.layer # NoLayer => build.srcIP \in fam /\ build.dstIP \in fam
            /\ build.srcIP \notin fam \/ build.dstIP \notin fam => build.err # ""

\* C19 (as stated): the TTL of every emitted carrier is the inner packet's TTL
\* (the hop limit of an IPv6 packet) minus one, and strictly smaller than it.
C19_CarrierTTLIsSmaller ==
    \A i \in Loops :
        last[i].emitted =>
            LET pkt == DecodeFrame(last[i].f)
                inner == IF pkt.net.type = "IPv4" THEN pkt.net.ttl ELSE pkt.net.hop
            IN  /\ last[i].carrier.ip.TTL = inner - 1
                /\ last[i].carrier.ip.TTL < inner

\* C19: the TTL of every carrier handed to WritePacketData is the captured IPv4
\* packet's TTL minus one in 8-bit arithmetic: t - 1 for a TTL t of 1..255, and
\* 255 for a TTL of 0 and for every captured IPv6 packet, whose hop limit is not
\* read; the decrement maps every value of 0..255 that way.
C19_CarrierTTLIsInnerMinusOneMod256 ==
    /\ \A t \in 0..255 : TTLMinusOne(t) = IF t = 0 THEN 255 ELSE t - 1
    /\ \A i \in Loops :
        last[i].wrote =>
            LET pkt == DecodeFrame(last[i].f)
                inner == IF pkt.net.type = "IPv4" THEN pkt.net.ttl ELSE 0
            IN  last[i].carrier.ip.TTL = IF inner = 0 THEN 255 ELSE inner - 1

\* A carrier with TTL 255 was emitted for an IPv4 packet whose TTL is 0.
C19_TTLZeroWrapsTo255 ==
    \E i \in Loops :
        /\ last[i].emitted /\ last[i].f = FrameUDPLite
        /\ last[i].carrier.ip.TTL = 255

\* C20: no two WritePacketData calls on the same handle are under way at the
\* same time: neither two listen loops writing to the upstream handle, nor the
\* upstream loop writing there while a listen loop does.
C20_WritesDoNotOverlap ==
    /\ Cardinality({i \in Loops : lpc[i] = "wring"}) <= 1
    /\ ~(upc = "wring" /\ uloc.target = upHandle /\ \E i \in Loops : lpc[i] = "wring")

\* C14: each capture loop is first in, first out: of two frames one loop read
\* and injected, the one read first was injected first -- on the upstream
\* handle for a listen loop, on the listen handles for the upstream loop.
C14_EachLoopInjectsInReadOrder == ~hist.outOfOrder

\* The listen loop and the upstream loop have each injected both of their frames.
C14_BothFramesOfEachLoopInjected ==
    /\ hist.nInj[1] = MaxRunFrames /\ hist.lastInj[1] = MaxRunFrames
    /\ hist.nInj[0] = MaxRunFrames /\ hist.lastInj[0] = MaxRunFrames

\* C15: once Close has been called and every capture loop has ended, Open
\* has returned or can still return.
C15_OpenReturnsAfterClose ==
    closed /\ LoopsEnded => openPC = "returned" \/ ENABLED <<RunNext>>_vars

\* The listen loops whose last handleListen call dropped its frame before the
\* NAT store: during "Parse packet" (no family chosen yet) or at the family check.
DroppedBeforeNat == {i \in Loops : last[i].valid /\ ~last[i].registered}

\* C21: a handleListen call that drops its frame before emission leaves seq, id
\* and the NAT table as it found them and injects nothing.
C21_DropLeavesStateUnchanged ==
    \A i \in DroppedBeforeNat :
        /\ last[i].seqAtEnd = last[i].seqAtStart
        /\ last[i].idAtEnd = last[i].idAtStart
        /\ last[i].natAtEnd = last[i].natAtStart
        /\ ~last[i].wrote /\ ~last[i].emitted

\* C21: a handleListen call that drops its frame before emission leaves id and
\* the NAT table as it found them and injects nothing; it leaves seq as it
\* found it when the frame is dropped during "Parse packet", and one further
\* (modulo 2^32) when the frame is dropped at the family check.
C21_DropKeepsIdAndNatAndSeqUntilParsed ==
    \A i \in DroppedBeforeNat :
        /\ last[i].seqAtEnd = IF last[i].family = 0 THEN last[i].seqAtStart
                              ELSE U32Add(last[i].seqAtStart, 1)
        /\ last[i].idAtEnd = last[i].idAtStart
        /\ last[i].natAtEnd = last[i].natAtStart
        /\ ~last[i].wrote /\ ~last[i].emitted

\* A frame dropped at the family check took seq from 2^32 - 1 to 0.
C21_FamilyDropAdvancedSeq ==
    \E i \in DroppedBeforeNat :
        /\ last[i].family # 0
        /\ last[i].seqAtStart = U32Max /\ last[i].seqAtEnd = U32Zero

\* C22: whenever a listen loop is at its injection on the upstream handle the
\* upstream handle has been opened, and once Open has returned an error no
\* listen loop is running.
C22_UpstreamOpenBeforeListenFrames ==
    /\ \A i \in Loops : lpc[i] \in {"wr", "wring"} => upHandle # NilHandle
    /\ openPC = "returned" /\ openErr # "" => \A i \in Loops : lpc[i] \in {"off", "done"}

====
